---------------------------- MODULE Spec2Model ----------------------------
(***************************************************************************)
(* Model of backend/server.py: the in-memory DocumentStore, the PDF         *)
(* extraction that fills it, and the upload / extract / chat handlers.     *)
(*                                                                         *)
(* A Python str is modelled as a sequence of one-character strings, so     *)
(* that startswith, endswith, `in`, strip, lower, split and the f-string   *)
(* formatting are computed character by character.                         *)
(***************************************************************************)
EXTENDS Integers, Sequences, FiniteSets, TLC

(***************************************************************************)
(* Bounds of the model.                                                    *)
(***************************************************************************)
\* pages of a document handled by the request-sequence specification Spec
MaxPages == 2
\* pages of a document that fills the store in the one-request specification
MaxStorePages == 3
\* messages of a chat request
MaxMsgs == 2
\* largest |max_sections| passed to get_context_for_query
MaxK == 6
\* upload_file coroutines alive at once in the concurrent specification
MaxClients == 2
\* elements of a document in the single-extraction specification
MaxElements == 2

(***************************************************************************)
(* Python string operations.                                               *)
(***************************************************************************)
\* s.startswith(p)
StartsWith(s, p) == Len(s) >= Len(p) /\ SubSeq(s, 1, Len(p)) = p

\* s.endswith(p)
EndsWith(s, p) == Len(s) >= Len(p) /\ SubSeq(s, Len(s) - Len(p) + 1, Len(s)) = p

\* sub in s
Contains(s, sub) ==
    \E i \in 0..(Len(s) - Len(sub)) : SubSeq(s, i + 1, i + Len(sub)) = sub

\* the characters str.strip() removes
Whitespace == {" ", "\n", "\t", "\r"}

\* s.strip()
Strip(s) ==
    LET keep == {i \in 1..Len(s) : s[i] \notin Whitespace}
    IN  IF keep = {} THEN <<>>
        ELSE LET lo == CHOOSE i \in keep : \A j \in keep : i <= j
                 hi == CHOOSE i \in keep : \A j \in keep : j <= i
             IN  SubSeq(s, lo, hi)

UpperCase == <<"A", "B", "C", "D", "E", "F", "G", "H", "I", "J", "K", "L", "M",
               "N", "O", "P", "Q", "R", "S", "T", "U", "V", "W", "X", "Y", "Z">>
LowerCase == <<"a", "b", "c", "d", "e", "f", "g", "h", "i", "j", "k", "l", "m",
               "n", "o", "p", "q", "r", "s", "t", "u", "v", "w", "x", "y", "z">>

\* the lower-case letter of each upper-case letter
ToLower ==
    [c \in {UpperCase[k] : k \in 1..26} |-> LowerCase[CHOOSE k \in 1..26 : UpperCase[k] = c]]

\* s.lower()
Lower(s) ==
    [i \in 1..Len(s) |-> IF s[i] \in DOMAIN ToLower THEN ToLower[s[i]] ELSE s[i]]

DigitChar == <<"0", "1", "2", "3", "4", "5", "6", "7", "8", "9">>

\* str(n) of a non-negative integer, as the f-string formats a page number
RECURSIVE Str(_)
Str(n) == IF n < 10 THEN <<DigitChar[n + 1]>>
          ELSE Str(n \div 10) \o <<DigitChar[(n % 10) + 1]>>

\* sep.join(parts)
RECURSIVE Join(_, _)
Join(parts, sep) ==
    IF parts = <<>> THEN <<>>
    ELSE IF Len(parts) = 1 THEN parts[1]
    ELSE parts[1] \o sep \o Join(Tail(parts), sep)

\* s.split(sep) for a one-character separator
RECURSIVE Split(_, _)
Split(s, sep) ==
    IF \A i \in 1..Len(s) : s[i] # sep THEN <<s>>
    ELSE LET k == CHOOSE i \in 1..Len(s) : s[i] = sep /\ \A j \in 1..(i - 1) : s[j] # sep
         IN  <<SubSeq(s, 1, k - 1)>> \o Split(SubSeq(s, k + 1, Len(s)), sep)

\* os.path.basename(path)
Basename(path) ==
    LET slashes == {i \in 1..Len(path) : path[i] = "/"}
    IN  IF slashes = {} THEN path
        ELSE SubSeq(path, (CHOOSE i \in slashes : \A j \in slashes : j <= i) + 1, Len(path))

\* seq[lo:] with a non-negative lo (Python clamps it to the length)
DropFirst(seq, lo) == SubSeq(seq, lo + 1, Len(seq))

\* seq[:n] with a non-negative n
TakeFirst(seq, n) == SubSeq(seq, 1, IF n < Len(seq) THEN n ELSE Len(seq))

\* seq[start:] with Python's treatment of a negative or too large start
SliceFrom(seq, start) ==
    LET n == Len(seq)
        lo == IF start < 0
              THEN (IF n + start < 0 THEN 0 ELSE n + start)
              ELSE (IF start > n THEN n ELSE start)
    IN  DropFirst(seq, lo)

(***************************************************************************)
(* DocumentStore.  A section is [content, page_num, section_type]; an      *)
(* image or table is [data, page_num, type], type being the "type" entry   *)
(* of its metadata dict ("" for a table: its metadata has none).  The rest *)
(* of the opaque metadata is never read by the program and is left out.    *)
(***************************************************************************)
\* tasks[t] is upload_file coroutine t: where it is suspended, and its file
VARIABLES document_store, request, response, tasks

vars == <<document_store, request, response, tasks>>

\* DocumentStore.__init__
NewStore == [sections |-> <<>>, images |-> <<>>, tables |-> <<>>, current_document |-> <<>>]

\* clear as it would be with the image and table lists forgotten
clear_sections_only(store) ==
    [store EXCEPT !.sections = <<>>, !.current_document = <<>>]

\* DocumentStore.clear
clear(store) ==
    [store EXCEPT !.sections = <<>>, !.images = <<>>, !.tables = <<>>,
                  !.current_document = <<>>]

\* DocumentStore.set_current_document
set_current_document(store, filename) == [store EXCEPT !.current_document = filename]

\* DocumentStore.add_section
add_section(store, section) == [store EXCEPT !.sections = Append(@, section)]

\* DocumentStore.add_image
add_image(store, image_data, page_num, type) ==
    [store EXCEPT !.images =
        Append(@, [data |-> image_data, page_num |-> page_num, type |-> type])]

\* DocumentStore.add_table
add_table(store, table_data, page_num) ==
    [store EXCEPT !.tables =
        Append(@, [data |-> table_data, page_num |-> page_num, type |-> <<>>])]

\* the default of get_context_for_query's max_sections
DefaultMaxSections == 5

\* one entry of get_context_for_query's result
ContextEntry(section) ==
    [content |-> section.content,
     page |-> section.page_num,
     type |-> section.section_type,
     citation |-> <<"P", "a", "g", "e", " ">> \o Str(section.page_num)]

\* get_context_for_query as it would be with sections[:max_sections]
get_context_first_sections(store, query, max_sections) ==
    LET selected == TakeFirst(store.sections, max_sections)
    IN  [i \in 1..Len(selected) |-> ContextEntry(selected[i])]

\* DocumentStore.get_context_for_query: the query is not read
get_context_for_query(store, query, max_sections) ==
    LET selected == SliceFrom(store.sections, 0 - max_sections)
    IN  [i \in 1..Len(selected) |-> ContextEntry(selected[i])]

(***************************************************************************)
(* extract_content_from_pdf.  An element of partition_pdf's result is      *)
(*   [kind, text, has_metadata, page_number, has_text_as_html,             *)
(*    text_as_html, has_image_base64, image_base64]                        *)
(* kind is the element's class; page_number 0 stands for an absent or None *)
(* page number; has_x is hasattr(element.metadata, x).  The modelled       *)
(* elements carry no metadata.image and no image_base64 key in to_dict().  *)
(***************************************************************************)
\* the grouping as it would be with the row closed at more than 3 cells
RECURSIVE GroupRowsOfFour(_, _)
GroupRowsOfFour(lines, current_row) ==
    IF lines = <<>>
    THEN (IF current_row # <<>> THEN <<current_row>> ELSE <<>>)
    ELSE LET line == Strip(Head(lines))
         IN  IF line = <<>> THEN GroupRowsOfFour(Tail(lines), current_row)
             ELSE LET row == Append(current_row, line)
                  IN  IF Len(row) > 3
                      THEN <<row>> \o GroupRowsOfFour(Tail(lines), <<>>)
                      ELSE GroupRowsOfFour(Tail(lines), row)

\* lines 128-140: the non-empty stripped lines of the table text, in rows of 3
RECURSIVE GroupRows(_, _)
GroupRows(lines, current_row) ==
    IF lines = <<>>
    THEN (IF current_row # <<>> THEN <<current_row>> ELSE <<>>)
    ELSE LET line == Strip(Head(lines))
         IN  IF line = <<>> THEN GroupRows(Tail(lines), current_row)
             ELSE LET row == Append(current_row, line)
                  IN  IF Len(row) >= 3
                      THEN <<row>> \o GroupRows(Tail(lines), <<>>)
                      ELSE GroupRows(Tail(lines), row)

TableRows(table_text) == GroupRows(Split(Strip(table_text), "\n"), <<>>)

\* lines 146-150: the HTML lines of row i (0-based) of the synthesized table
RowHtml(row, i) ==
    LET tag == IF i = 0 THEN <<"t", "h">> ELSE <<"t", "d">>
    IN  <<<<"<", "t", "r", ">">>>>
        \o [c \in 1..Len(row) |-> <<"<">> \o tag \o <<">">> \o row[c] \o <<"<",
            "/">> \o tag \o <<">">>]
        \o <<<<"<", "/", "t", "r", ">">>>>

RECURSIVE RowsHtml(_, _)
RowsHtml(rows, i) ==
    IF rows = <<>> THEN <<>> ELSE RowHtml(Head(rows), i) \o RowsHtml(Tail(rows), i + 1)

\* lines 127-152: the table synthesized from the element's text
SynthTable(table_text) ==
    Join(<<<<"<", "t", "a", "b", "l", "e", " ", "b", "o", "r", "d", "e", "r", "=", "'", "1", "'",
        ">">>>> \o RowsHtml(TableRows(table_text), 0) \o <<<<"<", "/", "t", "a", "b", "l", "e",
        ">">>>>,
         <<"\n">>)

\* lines 115-170: a Table element
ProcessTable(store, element, page_num) ==
    LET table_content == IF element.has_text_as_html THEN element.text_as_html
                         ELSE SynthTable(element.text)
        s1 == IF table_content # <<>> THEN add_table(store, table_content, page_num)
              ELSE store
        s2 == IF element.has_image_base64
              THEN add_image(s1, element.image_base64, page_num, <<"t", "a", "b", "l", "e", "_",
                  "i", "m", "a", "g", "e">>)
              ELSE s1
    IN  [store |-> s2, raised |-> FALSE]

\* line 205: the magic prefixes of a bare base64 payload
KnownPrefixes == {<<"i", "V", "B", "O", "R">>, <<"/", "9", "j", "/">>}

\* lines 172-217: an Image element
ProcessImage(store, element, page_num) ==
    LET d1 == IF element.has_image_base64 THEN element.image_base64 ELSE <<>>
        image_data ==
            IF d1 = <<>> /\ element.text # <<>>
               /\ (StartsWith(element.text, <<"d", "a", "t", "a", ":", "i", "m", "a", "g", "e">>)
                   \/ \E p \in KnownPrefixes : StartsWith(element.text, p))
            THEN element.text ELSE d1
    IN  IF image_data = <<>> THEN [store |-> store, raised |-> FALSE]
        ELSE IF StartsWith(image_data, <<"d", "a", "t", "a", ":", "i", "m", "a", "g", "e">>)
        THEN LET parts == Split(image_data, ",")
             IN  IF Len(parts) < 2 THEN [store |-> store, raised |-> TRUE]
                 ELSE [store |-> add_image(store, parts[2], page_num, <<"s", "t", "a", "n", "d",
                     "a", "l", "o", "n", "e", "_", "i", "m", "a", "g", "e">>),
                       raised |-> FALSE]
        ELSE IF ~ \E p \in KnownPrefixes : StartsWith(image_data, p)
        THEN [store |-> store, raised |-> FALSE]
        ELSE [store |-> add_image(store, image_data, page_num, <<"s", "t", "a", "n", "d", "a", "l",
            "o", "n", "e", "_", "i", "m", "a", "g", "e">>),
              raised |-> FALSE]

\* lines 219-230: a Text or Title element
ProcessText(store, element, page_num) ==
    IF \E t \in 1..Len(store.tables) :
            /\ store.tables[t].page_num = page_num
            /\ Contains(store.tables[t].data, element.text)
    THEN [store |-> store, raised |-> FALSE]
    ELSE [store |-> add_section(store,
                        [content |-> element.text,
                         page_num |-> page_num,
                         section_type |-> IF element.kind = "Title" THEN "title" ELSE "text"]),
          raised |-> FALSE]

\* lines 112-230: one pass of the loop body; raised is an exception leaving it
ProcessElement(store, element) ==
    IF ~element.has_metadata THEN [store |-> store, raised |-> TRUE]
    ELSE LET page_num == IF element.page_number = 0 THEN 1 ELSE element.page_number
         IN  CASE element.kind = "Table" -> ProcessTable(store, element, page_num)
               [] element.kind = "Image" -> ProcessImage(store, element, page_num)
               [] element.kind \in {"Text", "Title"} -> ProcessText(store, element, page_num)
               [] OTHER -> [store |-> store, raised |-> FALSE]

\* line 111: the loop over the elements, left at the first exception
RECURSIVE ProcessElements(_, _)
ProcessElements(store, elements) ==
    IF elements = <<>> THEN [store |-> store, raised |-> FALSE]
    ELSE LET r == ProcessElement(store, Head(elements))
         IN  IF r.raised THEN r ELSE ProcessElements(r.store, Tail(elements))

\* lines 89-99: the extraction adapter on the saved file; it throws on a file
\* it cannot parse
partition_pdf(content) ==
    IF content.corrupt THEN [raised |-> TRUE, elements |-> <<>>]
    ELSE [raised |-> FALSE, elements |-> content.elements]

\* lines 102-104
DocumentName(file_path) ==
    LET filename == Basename(file_path)
    IN  IF StartsWith(filename, <<"t", "e", "m", "p", "_">>) THEN DropFirst(filename,
        5) ELSE filename

\* extract_content_from_pdf as it would be with the store cleared before the
\* adapter is called
extract_clearing_first(store, file_path, content) ==
    LET parsed == partition_pdf(content)
        cleared == set_current_document(clear(store), DocumentName(file_path))
    IN  IF parsed.raised THEN [store |-> cleared, raised |-> TRUE]
        ELSE ProcessElements(cleared, parsed.elements)

\* extract_content_from_pdf on the file at file_path holding content; raised
\* is the HTTPException(500) of lines 235-237
extract_content_from_pdf(store, file_path, content) ==
    LET parsed == partition_pdf(content)
    IN  IF parsed.raised THEN [store |-> store, raised |-> TRUE]
        ELSE ProcessElements(set_current_document(clear(store), DocumentName(file_path)),
                             parsed.elements)

(***************************************************************************)
(* The HTTP handlers.  A response is the returned body with status 200, or *)
(* the HTTPException's status code and detail (the str(e) a 500 detail     *)
(* ends with is left out).                                                 *)
(***************************************************************************)
NoResponse ==
    [status |-> 0, detail |-> "", role |-> "", content |-> <<>>, images |-> <<>>,
     tables |-> <<>>, message |-> <<>>, preview |-> <<>>, context |-> <<>>]

HTTPException(status_code, detail) ==
    [NoResponse EXCEPT !.status = status_code, !.detail = detail]

\* os.getcwd()
Cwd == <<"/", "a", "p", "p">>

\* lines 261, 328
TempPath(filename) == Cwd \o <<"/">> \o <<"t", "e", "m", "p", "_">> \o filename

\* lines 292-293, 348-349
ProcessedMessage(store) ==
    <<"D", "o", "c", "u", "m", "e", "n", "t", " ", "p", "r", "o", "c", "e", "s", "s", "e", "d",
        " ", "s", "u", "c", "c", "e", "s", "s", "f", "u", "l", "l", "y", ".", " ", "F", "o", "u",
        "n", "d", " ">> \o Str(Len(store.sections))
    \o <<" ", "s", "e", "c", "t", "i", "o", "n", "s", " ", "o", "f", " ", "t", "e", "x", "t", ",",
        " ">> \o Str(Len(store.images))
    \o <<" ", "i", "m", "a", "g", "e", "s", ",", " ", "a", "n", "d",
        " ">> \o Str(Len(store.tables)) \o <<" ", "t", "a", "b", "l", "e", "s", ".">>

\* lines 294-302, 350-358: the first 3 sections
Preview(store, source) ==
    LET first == TakeFirst(store.sections, 3)
    IN  [i \in 1..Len(first) |->
            [content |-> first[i].content, page |-> first[i].page_num,
             type |-> first[i].section_type, source |-> source]]

\* the shared body as it would be with a case-insensitive extension test
HandleFileAnyCase(store, file, own_name) ==
    IF file.filename = <<>>
    THEN [store |-> store, response |-> HTTPException(400, "No file provided")]
    ELSE IF ~EndsWith(Lower(file.filename), <<".", "p", "d", "f">>)
    THEN [store |-> store, response |-> HTTPException(400, "Only PDF files are supported")]
    ELSE LET r == extract_content_from_pdf(store, TempPath(file.filename), file.content)
         IN  [store |-> r.store,
              response |-> IF r.raised THEN HTTPException(500, "Error processing document")
                           ELSE [NoResponse EXCEPT !.status = 200]]

\* the shared body of upload_file and extract_file; the saved temporary file
\* holds the uploaded content and exists and is readable (lines 277-283)
HandleFile(store, file, own_name) ==
    IF file.filename = <<>>
    THEN [store |-> store, response |-> HTTPException(400, "No file provided")]
    ELSE IF ~EndsWith(file.filename, <<".", "p", "d", "f">>)
    THEN [store |-> store, response |-> HTTPException(400, "Only PDF files are supported")]
    ELSE LET r == extract_content_from_pdf(store, TempPath(file.filename), file.content)
         IN  IF r.raised
             THEN [store |-> r.store,
                   response |-> HTTPException(500, "Error processing document")]
             ELSE [store |-> r.store,
                   response |->
                       [NoResponse EXCEPT
                           !.status = 200,
                           !.message = ProcessedMessage(r.store),
                           !.preview = Preview(r.store,
                                               IF own_name THEN file.filename
                                               ELSE r.store.current_document)]]

\* POST /api/upload: the preview's source is file.filename
upload_file(store, file) == HandleFile(store, file, TRUE)

\* POST /api/extract: the preview's source is the stored document name
extract_file(store, file) == HandleFile(store, file, FALSE)

\* lines 377-381: the content of the last message with role "user", or None
\* (found FALSE)
RECURSIVE LastUserMessage(_)
LastUserMessage(messages) ==
    IF messages = <<>> THEN [found |-> FALSE, content |-> <<>>]
    ELSE LET msg == messages[Len(messages)]
         IN  IF msg.role = "user" THEN [found |-> TRUE, content |-> msg.content]
             ELSE LastUserMessage(SubSeq(messages, 1, Len(messages) - 1))

\* line 415
ImageTerms == {<<"i", "m", "a", "g", "e">>, <<"p", "i", "c", "t", "u", "r", "e">>, <<"f", "i", "g",
    "u", "r", "e">>, <<"d", "i", "a", "g", "r", "a", "m">>, <<"g", "r", "a", "p", "h">>, <<"s",
    "h", "o", "w", " ", "m", "e">>, <<"v", "i", "s", "u", "a", "l">>}

\* line 416
TableTerms == {<<"t", "a", "b", "l", "e">>, <<"d", "a", "t", "a">>, <<"v", "a", "l", "u", "e",
    "s">>, <<"r", "o", "w", "s">>, <<"c", "o", "l", "u", "m", "n", "s">>, <<"e", "n", "t", "r",
    "i", "e", "s">>}

\* any(term in query_lower for term in terms)
AnyTermIn(terms, query_lower) == \E term \in terms : Contains(query_lower, term)

FallbackText == <<"I", " ", "d", "o", "n", "'", "t", " ", "h", "a", "v", "e", " ", "e", "n", "o",
    "u", "g", "h", " ", "c", "o", "n", "t", "e", "x", "t", " ", "t", "o", " ", "a", "n", "s", "w",
    "e", "r", " ", "y", "o", "u", "r", " ", "q", "u", "e", "s", "t", "i", "o", "n", ".", " ", "P",
    "l", "e", "a", "s", "e", " ", "t", "r", "y", " ", "a", "s", "k", "i", "n", "g", " ", "s", "o",
    "m", "e", "t", "h", "i", "n", "g", " ", "e", "l", "s", "e", " ", "o", "r", " ", "u", "p", "l",
    "o", "a", "d", " ", "a", " ", "d", "o", "c", "u", "m", "e", "n", "t", " ", "f", "i", "r", "s",
    "t", ".">>

\* lines 406-411: the context entries whose stripped content is not empty
Cited(context) == SelectSeq(context, LAMBDA section : Strip(section.content) # <<>>)

\* line 408
Citation(store, section) ==
    <<"[", "S", "o", "u", "r", "c", "e", ":", " ">> \o store.current_document \o <<",", " ", "P",
        "a", "g", "e", " ">> \o Str(section.page) \o <<"]">>

\* the answer parts as they would be without the test of line 407
ResponsePartsUnfiltered(store, context) ==
    [i \in 1..Len(context) |-> context[i].content \o <<" ">> \o Citation(store, context[i])]

\* lines 402-411
ResponseParts(store, context) ==
    LET cited == Cited(context)
    IN  [i \in 1..Len(cited) |-> cited[i].content \o <<" ">> \o Citation(store, cited[i])]

\* relevant_pages as it would be without the test of line 407
AllContextPages(context) == {context[i].page : i \in 1..Len(context)}

\* lines 404-411
RelevantPages(context) ==
    LET cited == Cited(context)
    IN  {cited[i].page : i \in 1..Len(cited)}

\* lines 423-427, 431-435: [x["data"] for x in items if x["page_num"] in pages]
DataOnPages(items, pages) ==
    LET kept == SelectSeq(items, LAMBDA x : x.page_num \in pages)
    IN  [i \in 1..Len(kept) |-> kept[i].data]

\* the reply as it would be with the media included whatever the query
ComposeUngated(store, user_message, context) ==
    [NoResponse EXCEPT
        !.status = 200,
        !.role = "assistant",
        !.content = Join(ResponseParts(store, context), <<"\n", "\n">>),
        !.images = DataOnPages(store.images, RelevantPages(context)),
        !.tables = DataOnPages(store.tables, RelevantPages(context))]

\* lines 401-445: the reply composed from a non-empty context
Compose(store, user_message, context) ==
    LET relevant_pages == RelevantPages(context)
        query_lower == Lower(user_message)
        include_images == AnyTermIn(ImageTerms, query_lower)
        include_tables == AnyTermIn(TableTerms, query_lower)
    IN  [NoResponse EXCEPT
            !.status = 200,
            !.role = "assistant",
            !.content = Join(ResponseParts(store, context), <<"\n", "\n">>),
            !.images = IF include_images THEN DataOnPages(store.images, relevant_pages)
                       ELSE <<>>,
            !.tables = IF include_tables THEN DataOnPages(store.tables, relevant_pages)
                       ELSE <<>>]

\* POST /api/chat.  The HTTPException(400) of line 385 is raised inside the
\* try block and caught by `except Exception` at line 447, which raises 500.
chat(store, messages) ==
    LET user == LastUserMessage(messages)
    IN  IF ~user.found \/ user.content = <<>>
        THEN HTTPException(500, "Error processing chat request")
        ELSE LET context == get_context_for_query(store, user.content, DefaultMaxSections)
             IN  IF Len(context) = 0
                 THEN [NoResponse EXCEPT !.status = 200, !.role = "assistant",
                                         !.content = FallbackText]
                 ELSE Compose(store, user.content, context)

(***************************************************************************)
(* Inputs.  A document is a sequence of pages; the adapter returns the     *)
(* elements of page 1, then of page 2, ..., each tagged with its page      *)
(* number (one element of page layout 5 carries none).                      *)
(***************************************************************************)
Element(kind, text, page_number) ==
    [kind |-> kind, text |-> text, has_metadata |-> TRUE, page_number |-> page_number,
     has_text_as_html |-> FALSE, text_as_html |-> <<>>,
     has_image_base64 |-> FALSE, image_base64 |-> <<>>]

WithHtml(element, html) ==
    [element EXCEPT !.has_text_as_html = TRUE, !.text_as_html = html]

WithBase64(element, payload) ==
    [element EXCEPT !.has_image_base64 = TRUE, !.image_base64 = payload]

\* the elements of a page with layout l and page number p
PageElements(l, p) ==
    CASE l = 1 -> <<Element("Title", <<"T">>, p),
                    WithBase64(Element("Image", <<>>, p), <<"i", "V", "B", "O", "R", "w">>),
                    Element("Text", <<"a", "b">>, p)>>
      [] l = 2 -> <<Element("Image", <<"/", "9", "j", "/", "4", "A">>, p),
                    Element("Text", <<" ", "\n">>, p)>>
      [] l = 3 -> <<WithHtml(Element("Table", <<"x">>, p), <<"<", "t", "d", ">", "x", "<", "/",
          "t", "d", ">">>),
                    Element("Text", <<"x">>, p),
                    Element("Text", <<"c", "d">>, p)>>
      [] l = 4 -> <<Element("Text", <<"e">>, p),
                    Element("Text", <<"f">>, p),
                    WithBase64(Element("Image", <<>>, p), <<"i", "V", "B", "O", "R", "x">>),
                    Element("Text", <<"g">>, p),
                    Element("Title", <<"k">>, p)>>
      [] l = 5 -> <<WithBase64(Element("Table", <<"A", "\n", "B", "\n", "\n", " ", "C", " ", "\n",
          "D">>, p), <<"i", "V", "B", "O", "R", "t">>),
                    WithBase64(Element("Image", <<>>, 0), <<"d", "a", "t", "a", ":", "i", "m", "a",
                        "g", "e", "/", "p", "n", "g", ";", "b", "a", "s", "e", "6", "4", ",", "/",
                        "9", "j", "/", "k">>),
                    Element("Image", <<"G", "I", "F", "8", "9", "a">>, p),
                    Element("PageBreak", <<>>, p)>>
      [] l = 6 -> <<Element("Text", <<"h">>, p),
                    WithBase64(Element("Image", <<>>, p), <<"d", "a", "t", "a", ":", "i", "m", "a",
                        "g", "e", "/", "p", "n", "g", ";", "b", "a", "s", "e", "6", "4">>),
                    Element("Text", <<"i">>, p)>>
      [] l = 7 -> <<Element("Title", <<"U">>, p),
                    [Element("Text", <<"j">>, p) EXCEPT !.has_metadata = FALSE]>>

\* layouts every element of which is processed without an exception
GoodLayouts == 1..5

\* the layouts of the request-sequence specification; 6 and 7 hold an element
\* the loop body raises on
Layouts == {1, 3, 6, 7}

RECURSIVE DocumentElements(_, _)
DocumentElements(pages, p) ==
    IF pages = <<>> THEN <<>>
    ELSE PageElements(Head(pages), p) \o DocumentElements(Tail(pages), p + 1)

\* the adapter's results on the documents of at most n pages
Documents(layouts, n) ==
    {DocumentElements(pages, 1) : pages \in UNION {[1..k -> layouts] : k \in 0..n}}

Pdf(elements) == [corrupt |-> FALSE, elements |-> elements]

CorruptPdf == [corrupt |-> TRUE, elements |-> <<>>]

GoodNames == {<<"a", ".", "p", "d", "f">>, <<"t", "e", "m", "p", "_", "b", ".", "p", "d", "f">>}

BadNames == {<<>>, <<"c", ".", "t", "x", "t">>, <<"d", ".", "P", "D", "F">>}

\* the uploads of the request-sequence specification
Files ==
    {[filename |-> n, content |-> Pdf(d)] : n \in GoodNames, d \in Documents(Layouts, MaxPages)}
    \cup {[filename |-> n, content |-> CorruptPdf] : n \in GoodNames}
    \cup {[filename |-> n, content |-> Pdf(PageElements(1, 1))] : n \in BadNames}

Queries == {<<>>, <<"t", "a", "b", " ", "l", "e">>, <<"S", "h", "o", "w", " ", "m", "e">>, <<"F",
    "I", "G", "U", "R", "E", " ", "2">>, <<"r", "o", "w", "s">>, <<"d", "a", "t", "a", " ", "i",
    "m", "a", "g", "e">>}

Messages ==
    {[role |-> "user", content |-> q] : q \in Queries}
    \cup {[role |-> "assistant", content |-> <<"o", "k">>]}

\* the message sequences of at most n messages
ChatRequests(n) == UNION {[1..k -> Messages] : k \in 0..n}

\* the message sequences of the request-sequence specification
FewChatRequests ==
    {<<>>,
     <<[role |-> "assistant", content |-> <<"o", "k">>]>>,
     <<[role |-> "user", content |-> <<>>]>>,
     <<[role |-> "user", content |-> <<"r", "o", "w", "s">>]>>,
     <<[role |-> "user", content |-> <<"d", "a", "t", "a", " ", "i", "m", "a", "g", "e">>],
         [role |-> "assistant", content |-> <<"o", "k">>]>>}

(***************************************************************************)
(* The state machine.  request is the request handled last.                *)
(***************************************************************************)
NoFile == [filename |-> <<>>, content |-> CorruptPdf]

NoRequest ==
    [op |-> "none", file |-> NoFile, messages |-> <<>>, query |-> <<>>, max_sections |-> 0]

\* a coroutine that is not running
IdleTask == [pc |-> "idle", file |-> NoFile]

NoTasks == [t \in 1..MaxClients |-> IdleTask]

Init ==
    /\ document_store = NewStore
    /\ request = NoRequest
    /\ response = NoResponse
    /\ tasks = NoTasks

UploadFile(file) ==
    LET r == upload_file(document_store, file)
    IN  /\ document_store' = r.store
        /\ response' = r.response
        /\ request' = [NoRequest EXCEPT !.op = "upload", !.file = file]
        /\ UNCHANGED tasks

ExtractFile(file) ==
    LET r == extract_file(document_store, file)
    IN  /\ document_store' = r.store
        /\ response' = r.response
        /\ request' = [NoRequest EXCEPT !.op = "extract", !.file = file]
        /\ UNCHANGED tasks

Chat(messages) ==
    /\ response' = chat(document_store, messages)
    /\ request' = [NoRequest EXCEPT !.op = "chat", !.messages = messages]
    /\ UNCHANGED <<document_store, tasks>>

\* a direct call of document_store.get_context_for_query
GetContext(query, max_sections) ==
    /\ response' = [NoResponse EXCEPT
                       !.status = 200,
                       !.context = get_context_for_query(document_store, query, max_sections)]
    /\ request' = [NoRequest EXCEPT !.op = "get_context_for_query", !.query = query,
                                    !.max_sections = max_sections]
    /\ UNCHANGED <<document_store, tasks>>

Next ==
    \/ \E file \in Files : UploadFile(file)
    \/ \E file \in Files : ExtractFile(file)
    \/ \E messages \in FewChatRequests : Chat(messages)

\* requests handled one at a time, in any order
Spec == Init /\ [][Next]_vars

\* the stores a successful or failed extraction leaves behind
LoadedStores ==
    {extract_content_from_pdf(NewStore, TempPath(<<"a", ".", "p", "d", "f">>), Pdf(d)).store :
        d \in Documents(GoodLayouts, MaxStorePages)}

InitLoaded ==
    /\ document_store \in LoadedStores
    /\ request = NoRequest
    /\ response = NoResponse
    /\ tasks = NoTasks

NextLoaded ==
    \/ \E messages \in ChatRequests(MaxMsgs) : request.op = "none" /\ Chat(messages)
    \/ \E query \in {<<"h", "i">>, <<"r", "o", "w", "s">>}, max_sections \in (0 - MaxK)..MaxK :
           request.op = "none" /\ GetContext(query, max_sections)

\* one chat request or one get_context_for_query call on a loaded store
SpecLoaded == InitLoaded /\ [][NextLoaded]_vars

(***************************************************************************)
(* Properties.                                                             *)
(***************************************************************************)
IsContextCall == request.op = "get_context_for_query"

IsChat == request.op = "chat"

IsFileRequest == request.op \in {"upload", "extract"}

\* the query of the chat request handled last
UserMessage == LastUserMessage(request.messages)

Min(a, b) == IF a < b THEN a ELSE b

\* the number a string of decimal digits denotes; -1 for any other string
RECURSIVE ParseNat(_)
ParseNat(digits) ==
    IF digits = <<>> \/ \E i \in 1..Len(digits) : \A d \in 1..10 : DigitChar[d] # digits[i]
    THEN 0 - 1
    ELSE IF Len(digits) = 1 THEN (CHOOSE d \in 1..10 : DigitChar[d] = digits[1]) - 1
    ELSE 10 * ParseNat(SubSeq(digits, 1, Len(digits) - 1))
         + (CHOOSE d \in 1..10 : DigitChar[d] = digits[Len(digits)]) - 1

\* C1: for a non-empty section list and a positive k, get_context_for_query
\* returns min(k, len) entries, which are the last min(k, len) sections in
\* insertion order, each cited as "Page " followed by the decimal page number,
\* whatever the query is.
C1_ContextIsLastSections ==
    (IsContextCall /\ request.max_sections > 0 /\ Len(document_store.sections) > 0) =>
        LET sections == document_store.sections
            n == Len(sections)
            m == Min(request.max_sections, n)
        IN  /\ Len(response.context) = m
            /\ \A i \in 1..m :
                 LET entry == response.context[i]
                     section == sections[n - m + i]
                 IN  /\ entry.content = section.content
                     /\ entry.page = section.page_num
                     /\ entry.type = section.section_type
                     /\ SubSeq(entry.citation, 1, 5) = <<"P", "a", "g", "e", " ">>
                     /\ ParseNat(SubSeq(entry.citation, 6, Len(entry.citation)))
                            = section.page_num

\* C1 witness: a call with 1 < k < len(sections) on sections of several pages
\* has returned k entries.
C1_Witness ==
    /\ IsContextCall
    /\ request.max_sections > 1
    /\ request.max_sections < Len(document_store.sections)
    /\ Len(response.context) = request.max_sections
    /\ response.context[1].page # response.context[Len(response.context)].page

\* C2: for a non-positive max_sections get_context_for_query returns an empty
\* list.
C2_NonPositiveReturnsEmpty ==
    (IsContextCall /\ request.max_sections <= 0) => Len(response.context) = 0

\* C3: with zero stored sections, a chat request that has a user message (of
\* any content, the empty string included) gets the fallback message, role
\* "assistant" and empty media lists, as a normal outcome.
C3_EmptyStoreFallback ==
    (IsChat /\ UserMessage.found /\ Len(document_store.sections) = 0) =>
        /\ response.status = 200
        /\ response.role = "assistant"
        /\ response.content = FallbackText
        /\ response.images = <<>>
        /\ response.tables = <<>>

\* C4: a chat request without a message of role "user" is rejected with
\* status 400.
C4_NoUserMessageIs400 ==
    (IsChat /\ ~UserMessage.found) => response.status = 400

\* the keywords as the claim lists them
ClaimImageKeywords ==
    {<<"i", "m", "a", "g", "e">>, <<"p", "i", "c", "t", "u", "r", "e">>, <<"f", "i", "g", "u", "r",
        "e">>, <<"d", "i", "a", "g", "r", "a", "m">>, <<"g", "r", "a", "p", "h">>, <<"s", "h", "o",
        "w", " ", "m", "e">>, <<"v", "i", "s", "u", "a", "l">>}

ClaimTableKeywords == {<<"t", "a", "b", "l", "e">>, <<"d", "a", "t", "a">>, <<"v", "a", "l", "u",
    "e", "s">>, <<"r", "o", "w", "s">>, <<"c", "o", "l", "u", "m", "n", "s">>, <<"e", "n", "t",
    "r", "i", "e", "s">>}

HasKeyword(keywords) ==
    LET query_lower == Lower(UserMessage.content)
    IN  \E k \in keywords : Contains(query_lower, k)

\* a chat request that was answered from a non-empty context
Answered ==
    /\ IsChat
    /\ response.status = 200
    /\ Len(document_store.sections) > 0

LastFive ==
    LET sections == document_store.sections
        n == Len(sections)
    IN  SubSeq(sections, IF n > 5 THEN n - 4 ELSE 1, n)

\* the pages of the selected sections that are not blank
NonBlankPages ==
    LET selected == LastFive
    IN  {selected[i].page_num :
            i \in {j \in 1..Len(selected) : Strip(selected[j].content) # <<>>}}

RECURSIVE DataOf(_, _)
DataOf(items, pages) ==
    IF items = <<>> THEN <<>>
    ELSE (IF Head(items).page_num \in pages THEN <<Head(items).data>> ELSE <<>>)
         \o DataOf(Tail(items), pages)

\* C6: with an image keyword and a non-empty context the images returned are
\* exactly those stored on the pages of the non-blank sections among the last
\* 5, in store order; likewise the tables with a table keyword.
C6_MediaOnRelevantPages ==
    Answered =>
        LET pages == NonBlankPages
        IN  /\ HasKeyword(ClaimImageKeywords) =>
                   response.images = DataOf(document_store.images, pages)
            /\ HasKeyword(ClaimTableKeywords) =>
                   response.tables = DataOf(document_store.tables, pages)

\* C6 witness: an image query was answered with some image, while one image
\* on the page of a section outside the last 5 and one image on the page of a
\* blank section among the last 5 were left out.
C6_Witness ==
    /\ Answered
    /\ HasKeyword(ClaimImageKeywords)
    /\ response.images # <<>>
    /\ \E i \in 1..Len(document_store.images) :
           /\ document_store.images[i].page_num \notin NonBlankPages
           /\ \E s \in 1..(Len(document_store.sections) - 5) :
                  document_store.sections[s].page_num = document_store.images[i].page_num
    /\ \E i \in 1..Len(document_store.images) :
           /\ document_store.images[i].page_num \notin NonBlankPages
           /\ \E s \in 1..Len(LastFive) :
                  /\ LastFive[s].page_num = document_store.images[i].page_num
                  /\ Strip(LastFive[s].content) = <<>>

\* the answer the claim describes, built section by section
RECURSIVE AnswerOf(_, _, _)
AnswerOf(sections, document_name, started) ==
    IF sections = <<>> THEN <<>>
    ELSE LET section == Head(sections)
         IN  IF Strip(section.content) = <<>>
             THEN AnswerOf(Tail(sections), document_name, started)
             ELSE (IF started THEN <<"\n", "\n">> ELSE <<>>)
                  \o section.content \o <<" ", "[", "S", "o", "u", "r", "c", "e", ":",
                      " ">> \o document_name \o <<",", " ", "P", "a", "g", "e", " ">>
                  \o Str(section.page_num) \o <<"]">>
                  \o AnswerOf(Tail(sections), document_name, TRUE)

\* C10: the answer is the non-blank sections among the last 5, in order, each
\* followed by " [Source: <document name>, Page <page>]", joined by a blank
\* line; a blank section adds nothing.
C10_AnswerFromSections ==
    Answered =>
        response.content = AnswerOf(LastFive, document_store.current_document, FALSE)

\* C10 witness: an answer of at least two parts from a selection that holds a
\* blank section.
C10_Witness ==
    /\ Answered
    /\ Cardinality({i \in 1..Len(LastFive) : Strip(LastFive[i].content) # <<>>}) >= 2
    /\ \E i \in 1..Len(LastFive) : Strip(LastFive[i].content) = <<>>
    /\ Contains(response.content, <<"\n", "\n">>)

\* what extracting the file into an empty store leaves
ExtractedAlone(file) ==
    extract_content_from_pdf(NewStore, TempPath(file.filename), file.content)

\* the stores that hold (part of) one document
SingleDocumentStores ==
    {NewStore} \cup {ExtractedAlone(file).store : file \in Files}

Succeeded == IsFileRequest /\ response.status = 200

\* C7: after an extraction that succeeded the store holds exactly what that
\* file yields on its own, under that file's name; and in every state the
\* store holds the content of at most one document.
C7_SingleDocument ==
    /\ document_store \in SingleDocumentStores
    /\ Succeeded =>
           /\ document_store = ExtractedAlone(request.file).store
           /\ document_store.current_document = request.file.filename

\* C7 witness: the file temp_b.pdf was extracted and left sections, images
\* and tables.
C7_Witness ==
    /\ Succeeded
    /\ request.file.filename = <<"t", "e", "m", "p", "_", "b", ".", "p", "d", "f">>
    /\ document_store.sections # <<>>
    /\ document_store.images # <<>>
    /\ document_store.tables # <<>>

Failed == IsFileRequest /\ response.status = 500

\* C8 as claimed: after any failed extraction the store holds only what the
\* new file added before the failure, and nothing of the earlier document.
C8_FailedExtractionClears ==
    Failed =>
        /\ document_store.sections = ExtractedAlone(request.file).store.sections
        /\ document_store.images = ExtractedAlone(request.file).store.images
        /\ document_store.tables = ExtractedAlone(request.file).store.tables
        /\ document_store.current_document \in {<<>>, request.file.filename}

\* a request for a file with a name the handlers accept
NamedPdf(req) ==
    /\ req.op \in {"upload", "extract"}
    /\ req.file.filename # <<>>
    /\ EndsWith(req.file.filename, <<".", "p", "d", "f">>)

\* C8 amended: an extraction that fails ends in status 500; if an element
\* raised part-way through, the store holds only what the new file added before
\* the failure, under the new name; if the adapter threw, the store is exactly
\* as it was before the request.
C8_FailedExtraction ==
    [][(NamedPdf(request') /\ ExtractedAlone(request'.file).raised) =>
          /\ response'.status = 500
          /\ IF request'.file.content.corrupt
             THEN document_store' = document_store
             ELSE /\ document_store' = ExtractedAlone(request'.file).store
                  /\ document_store'.current_document = request'.file.filename]_vars

\* C8 witness: an extraction failed part-way and left a section of the new
\* document.
C8_Witness ==
    /\ Failed
    /\ ~request.file.content.corrupt
    /\ document_store.sections # <<>>
    /\ document_store.current_document = request.file.filename

\* C9: an upload or extract request with a missing filename or one that does
\* not end in ".pdf" gets status 400 and leaves the store as it was.
C9_BadNameRejected ==
    [][(request'.op \in {"upload", "extract"} /\ ~NamedPdf(request')) =>
          /\ response'.status = 400
          /\ document_store' = document_store]_vars

\* C9 witness: a request for d.PDF was rejected while a document is loaded.
C9_Witness ==
    /\ IsFileRequest
    /\ request.file.filename = <<"d", ".", "P", "D", "F">>
    /\ response.status = 400
    /\ document_store.sections # <<>>
    /\ document_store.current_document # <<>>

(***************************************************************************)
(* Concurrent uploads.  upload_file is a coroutine on the server's single  *)
(* event loop: it runs without interruption from one await to the next, so *)
(* it can be suspended at `await file.seek(0)` (pc "seek") and at          *)
(* `await file.read()` (pc "read") and nowhere else; the temporary file is *)
(* written, read by extract_content_from_pdf and removed within the last   *)
(* step.                                                                   *)
(***************************************************************************)
\* the uploads of the concurrent specification
ConcurrentFiles ==
    {[filename |-> <<"a", ".", "p", "d", "f">>, content |-> Pdf(PageElements(1, 1))],
     [filename |-> <<"a", ".", "p", "d", "f">>, content |-> Pdf(PageElements(3, 1))],
     [filename |-> <<"t", "e", "m", "p", "_", "b", ".", "p", "d", "f">>,
         content |-> Pdf(PageElements(4, 1))],
     [filename |-> <<"t", "e", "m", "p", "_", "b", ".", "p", "d", "f">>,
         content |-> Pdf(PageElements(6, 1))],
     [filename |-> <<"a", ".", "p", "d", "f">>, content |-> CorruptPdf],
     [filename |-> <<"c", ".", "t", "x", "t">>, content |-> Pdf(PageElements(1, 1))]}

\* lines 250-266: the request arrives at an idle coroutine, which rejects the
\* file name or suspends at file.seek
UploadStart(t, file) ==
    /\ tasks[t].pc = "idle"
    /\ IF file.filename = <<>> \/ ~EndsWith(file.filename, <<".", "p", "d", "f">>)
       THEN /\ response' = upload_file(document_store, file).response
            /\ request' = [NoRequest EXCEPT !.op = "upload", !.file = file]
            /\ UNCHANGED <<document_store, tasks>>
       ELSE /\ tasks' = [tasks EXCEPT ![t] = [pc |-> "seek", file |-> file]]
            /\ UNCHANGED <<document_store, request, response>>

\* lines 266-267: resumed after file.seek, suspends at file.read
UploadSeeked(t) ==
    /\ tasks[t].pc = "seek"
    /\ tasks' = [tasks EXCEPT ![t].pc = "read"]
    /\ UNCHANGED <<document_store, request, response>>

\* the last step as it would be with the store not cleared by the extraction
UploadFinishNoClear(t) ==
    LET file == tasks[t].file
        r == ProcessElements(
                 set_current_document(document_store, DocumentName(TempPath(file.filename))),
                 file.content.elements)
    IN  /\ tasks[t].pc = "read"
        /\ document_store' = r.store
        /\ response' = IF r.raised \/ file.content.corrupt
                       THEN HTTPException(500, "Error processing document")
                       ELSE [NoResponse EXCEPT !.status = 200]
        /\ request' = [NoRequest EXCEPT !.op = "upload", !.file = file]
        /\ tasks' = [tasks EXCEPT ![t] = IdleTask]

\* lines 267-313: resumed after file.read, runs to the end of the handler
UploadFinish(t) ==
    LET r == upload_file(document_store, tasks[t].file)
    IN  /\ tasks[t].pc = "read"
        /\ document_store' = r.store
        /\ response' = r.response
        /\ request' = [NoRequest EXCEPT !.op = "upload", !.file = tasks[t].file]
        /\ tasks' = [tasks EXCEPT ![t] = IdleTask]

NextConcurrent ==
    \/ \E t \in 1..MaxClients, file \in ConcurrentFiles : UploadStart(t, file)
    \/ \E t \in 1..MaxClients : UploadSeeked(t)
    \/ \E t \in 1..MaxClients : UploadFinish(t)

\* upload requests handled concurrently
SpecConcurrent == Init /\ [][NextConcurrent]_vars

\* what extracting the file into an empty store leaves
AloneStore(file) ==
    extract_content_from_pdf(NewStore, TempPath(file.filename), file.content).store

\* the stores that hold (part of) one of the concurrent uploads' documents,
\* under that document's name
OneUploadStores == {NewStore} \cup {AloneStore(file) : file \in ConcurrentFiles}

\* an upload has just completed while an upload of another file is suspended
\* at an await
CompletedBesideAnother ==
    /\ request.op = "upload"
    /\ response.status = 200
    /\ \E t \in 1..MaxClients :
           /\ tasks[t].pc \in {"seek", "read"}
           /\ tasks[t].file.filename # request.file.filename

ImagePool ==
    {Element("Image", <<>>, 1),
     WithBase64(Element("Image", <<>>, 1), <<"G", "I", "F", "8", "9", "a">>),
     WithBase64(Element("Image", <<>>, 1), <<"d", "a", "t", "a", ":", "i", "m", "a", "g", "e", "/",
         "p", "n", "g", ";", "b", "a", "s", "e", "6", "4", ",", "/", "9", "j", "/", "k">>),
     WithBase64(Element("Image", <<>>, 1), <<"d", "a", "t", "a", ":", "i", "m", "a", "g", "e", "/",
         "p", "n", "g", ";", "b", "a", "s", "e", "6", "4">>),
     WithBase64(Element("Image", <<>>, 1), <<"i", "V", "B", "O", "R", "w">>),
     Element("Image", <<"/", "9", "j", "/", "4", "A">>, 1)}

TablePool ==
    {WithHtml(Element("Table", <<"x">>, 1), <<"<", "t", "d", ">", "x", "<", "/", "t", "d", ">">>),
     Element("Table", <<>>, 1),
     Element("Table", <<"A", "\n", "B", "\n", "\n", " ", "C", " ", "\n", "D">>, 1),
     Element("Table", <<"A", "\n", "B", "\n", "C", "\n", "D", "\n", "E", "\n", "F">>, 1),
     Element("Table", <<"A", "\n", "B", "\n", "C", "\n", "D", "\n", "E", "\n", "F", "\n", "G">>, 1),
     WithBase64(Element("Table", <<"A">>, 1), <<"i", "V", "B", "O", "R", "t">>)}

TextPool ==
    {Element("Text", <<"x">>, 1),
     Element("Text", <<"x">>, 2),
     Element("Title", <<"c", "d">>, 1),
     Element("Text", <<"A">>, 1)}

ElementPool == ImagePool \cup TablePool \cup TextPool

\* the uploads of the single-extraction specification
ElementFiles ==
    {[filename |-> <<"a", ".", "p", "d", "f">>, content |-> Pdf(elements)] :
        elements \in UNION {[1..k -> ElementPool] : k \in 0..MaxElements}}

NextExtract ==
    \/ \E file \in ElementFiles : request.op = "none" /\ UploadFile(file)
    \/ \E file \in ElementFiles : request.op = "none" /\ ExtractFile(file)

\* one upload or extract request on the empty store
SpecExtract == Init /\ [][NextExtract]_vars

\* the elements of the request's document
RequestElements == request.file.content.elements

\* the page number the loop gives an element
PageOf(element) == IF element.page_number = 0 THEN 1 ELSE element.page_number

\* a file request whose name is accepted and whose file the adapter parses
Extracting ==
    /\ NamedPdf(request)
    /\ ~request.file.content.corrupt
    /\ \A i \in 1..Len(RequestElements) : RequestElements[i].has_metadata

\* the request's file without its Image elements
WithoutImages ==
    [request.file EXCEPT
        !.content.elements = SelectSeq(RequestElements, LAMBDA e : e.kind # "Image")]

\* C12: an Image element never aborts the extraction: whatever its payload
\* (absent, unrecognized, or a data:image URI with or without a comma) the
\* request succeeds, every other element is processed as if the images were
\* not there, and no stored standalone image keeps its data:image prefix.
C12_ImageProblemsNeverAbort ==
    Extracting =>
        /\ response.status = 200
        /\ document_store.sections = AloneStore(WithoutImages).sections
        /\ document_store.tables = AloneStore(WithoutImages).tables
        /\ \A i \in 1..Len(document_store.images) :
               document_store.images[i].type = <<"s", "t", "a", "n", "d", "a", "l", "o", "n", "e",
                   "_", "i", "m", "a", "g", "e">> =>
                   ~StartsWith(document_store.images[i].data, <<"d", "a", "t", "a", ":", "i", "m",
                       "a", "g", "e">>)

\* the Text and Title elements of the request's document, in order
TextElements == SelectSeq(RequestElements, LAMBDA e : e.kind \in {"Text", "Title"})

\* the element's text is contained in the data of a stored table of its page
RepeatsTable(element) ==
    \E t \in 1..Len(document_store.tables) :
        /\ document_store.tables[t].page_num = PageOf(element)
        /\ Contains(document_store.tables[t].data, element.text)

\* the section an element yields
SectionOf(element) ==
    [content |-> element.text, page_num |-> PageOf(element),
     section_type |-> IF element.kind = "Title" THEN "title" ELSE "text"]

\* C13: after a successful extraction the sections are, in element order, one
\* per Text or Title element whose text is not contained in the data of a
\* table of the same page, wherever that table stands in the sequence.
C13_NoSectionRepeatsTable ==
    (Extracting /\ response.status = 200) =>
        LET kept == SelectSeq(TextElements, LAMBDA e : ~RepeatsTable(e))
        IN  document_store.sections = [i \in 1..Len(kept) |-> SectionOf(kept[i])]

\* the Table elements of the request's document, in order
TableElements == SelectSeq(RequestElements, LAMBDA e : e.kind = "Table")

\* the non-empty lines of a raw table text, in order, without the blanks
\* around them
NonEmptyLines(table_text) ==
    LET lines == Split(table_text, "\n")
        full == SelectSeq(lines, LAMBDA l : Strip(l) # <<>>)
    IN  [i \in 1..Len(full) |-> Strip(full[i])]

\* ceil(n / 3)
RowCount(n) == (n + 2) \div 3

\* the cells of row r (1-based) of a table of the given lines: lines
\* 3r-2 .. 3r, as far as there are lines; header cells in row 1
RowCells(lines, r) ==
    LET last == IF 3 * r < Len(lines) THEN 3 * r ELSE Len(lines)
    IN  [c \in 1..(last - 3 * r + 3) |->
            IF r = 1 THEN <<"<", "t", "h", ">">> \o lines[3 * r - 3 + c] \o <<"<", "/", "t", "h",
                ">">>
            ELSE <<"<", "t", "d", ">">> \o lines[3 * r - 3 + c] \o <<"<", "/", "t", "d", ">">>]

\* the lines of the table the claim describes, from row r on
RECURSIVE TableLinesFrom(_, _)
TableLinesFrom(lines, r) ==
    IF r > RowCount(Len(lines)) THEN <<>>
    ELSE <<<<"<", "t", "r", ">">>>> \o RowCells(lines, r) \o <<<<"<", "/", "t", "r",
        ">">>>> \o TableLinesFrom(lines, r + 1)

\* line 143
TableOpen == <<"<", "t", "a", "b", "l", "e", " ", "b", "o", "r", "d", "e", "r", "=", "'", "1", "'",
    ">">>

\* line 151
TableClose == <<"<", "/", "t", "a", "b", "l", "e", ">">>

\* C14: the table stored for a Table element without text_as_html has, between
\* its opening and closing line, ceil(n/3) rows for the n non-empty lines of
\* the raw text: the lines in order, 3 per row, the rest in a last row; header
\* cells in the first row and data cells in the others.
C14_SynthesizedTable ==
    (Extracting /\ response.status = 200) =>
        /\ Len(document_store.tables) = Len(TableElements)
        /\ \A k \in 1..Len(TableElements) :
               ~TableElements[k].has_text_as_html =>
                   LET lines == NonEmptyLines(TableElements[k].text)
                       html == Split(document_store.tables[k].data, "\n")
                   IN  /\ html = <<TableOpen>> \o TableLinesFrom(lines, 1) \o <<TableClose>>
                       /\ Cardinality({i \in 1..Len(html) : html[i] = <<"<", "t", "r", ">">>})
                              = RowCount(Len(lines))

\* C14 witness: the raw text of lines A to F was stored as 2 rows of 3 cells,
\* and a raw text of 7 lines as 3 rows, the last of 1 cell.
C14_Witness ==
    /\ Extracting
    /\ response.status = 200
    /\ RequestElements = <<Element("Table", <<"A", "\n", "B", "\n", "C", "\n", "D", "\n", "E",
        "\n", "F">>, 1),
                           Element("Table", <<"A", "\n", "B", "\n", "C", "\n", "D", "\n", "E",
                               "\n", "F", "\n", "G">>, 1)>>
    /\ document_store.tables[1].data =
           <<"<", "t", "a", "b", "l", "e", " ", "b", "o", "r", "d", "e", "r", "=", "'", "1", "'",
               ">", "\n", "<", "t", "r", ">", "\n", "<", "t", "h", ">", "A", "<", "/", "t", "h",
               ">", "\n", "<", "t", "h", ">", "B", "<", "/", "t", "h", ">", "\n", "<", "t", "h",
               ">", "C", "<", "/", "t", "h", ">", "\n", "<", "/", "t", "r", ">", "\n", "<", "t",
               "r", ">", "\n", "<", "t", "d", ">", "D", "<", "/", "t", "d", ">", "\n", "<", "t",
               "d", ">", "E", "<", "/", "t", "d", ">", "\n", "<", "t", "d", ">", "F", "<", "/",
               "t", "d", ">", "\n", "<", "/", "t", "r", ">", "\n", "<", "/", "t", "a", "b", "l",
               "e", ">">>
    /\ Len(Split(document_store.tables[2].data, "\n")) = 15

=============================================================================
